---------------------------- MODULE Spec2Model ----------------------------
(***************************************************************************)
(* Query gate and dispatcher of the routing engine (src/engine/engine.cpp). *)
(*                                                                         *)
(* One Engine object, constructed either with shared memory (an EngineLock *)
(* and a DataWatchdog exist) or standalone (neither exists).  Request      *)
(* threads run RunQuery; every labelled step of RunQuery, of               *)
(* IncreaseQueryCount and of DecreaseQueryCount is one action.  The        *)
(* external loader publishes dataset generations by bumping the shared     *)
(* timestamp the watchdog compares against.                                *)
(***************************************************************************)
EXTENDS Integers, Sequences, FiniteSets

\* ------------------------------------------------------------------ bounds
NThreads == 2
MaxRequests == 2
MaxGen == 3

Threads == 1..NThreads
Gens == 1..MaxGen

\* An empty std::shared_ptr (the value `if (new_facade)` tests for).
NullFacade == 0

Statuses == {"Ok", "Error"}

VARIABLES
    lock,                  \* Engine::lock is non-null (shared memory in use)
    number_of_queries,     \* barrier.number_of_queries
    pending_update_mutex,  \* barrier.pending_update_mutex: set of holders
    query_mutex,           \* barrier.query_mutex: set of holders
    facade_update_mutex,   \* EngineLock::facade_update_mutex: set of holders
    query_data_facade,     \* Engine::query_data_facade: generation it points to
    shared_timestamp,      \* timestamp published by the loader process
    current_timestamp,     \* the watchdog's own timestamp
    use_count,             \* shared_ptr use count of every generation's facade
    destroyed,             \* generations whose facade has been destroyed
    aborted,               \* a failed BOOST_ASSERT ended the process
    pc,                    \* per thread: position in RunQuery
    new_facade,            \* per thread: local new_facade of RunQuery
    handle,                \* per thread: the facade argument of HandleRequest
    holds,                 \* per thread: the argument owns a counted reference
    status,                \* per thread: Status of the last handler call
    reg,                   \* per thread: the counter value read by ++ or --
    requests,              \* requests started so far, over all threads
    admitted,              \* completed increments, over all threads
    released,              \* completed decrements, over all threads
    trace,                 \* per thread: gate events of the current request
    pre,                   \* per thread: current facade when it took the lock
    obs,                   \* per thread: current facade when it left the lock
    upd,                   \* position of the external updater on the barrier
    result,                \* per thread: what RunQuery returned to its caller
    engine,                \* "none" before Engine::Engine ran, then "ok" or "failed"
    config                 \* the EngineConfig a construction still has to use

vars == <<lock, number_of_queries, pending_update_mutex, query_mutex,
          facade_update_mutex, query_data_facade, shared_timestamp,
          current_timestamp, use_count, destroyed, aborted, pc, new_facade,
          handle, holds, status, reg, requests, admitted, released, trace, pre,
          obs, upd, result, engine, config>>

gate == <<number_of_queries, pending_update_mutex, query_mutex>>
facadeState == <<query_data_facade, current_timestamp, use_count, destroyed>>
\* What only the constructor writes.
built == <<engine, config, lock>>

locals == <<new_facade, handle, holds, status, reg>>
history == <<admitted, released, pre, obs>>

\* ---------------------------------------------------------------- watchdog
\* DataWatchdog::TryConnect: the regions table exists once a generation
\* has been published.
TryConnect(published) == published # 0

\* DataWatchdog::HasNewRegion: the published timestamp differs from ours.
HasNewRegion == shared_timestamp # current_timestamp

\* DataWatchdog::MaybeLoadNewRegion: the facade of the published generation,
\* or none when it is the one already loaded.
MaybeLoadNewRegion(current, published) ==
    IF published = current THEN NullFacade ELSE published

\* ------------------------------------------------------------- construction
Configs ==
    [use_shared_memory : BOOLEAN, storage_valid : BOOLEAN, published : 0..1]

\* Faulty variant: the constructor checks neither TryConnect nor the storage
\* config and never throws.
Engine_Unchecked(c) ==
    IF c.use_shared_memory
    THEN [ok |-> TRUE, lock |-> TRUE,
          facade |-> MaybeLoadNewRegion(0, c.published),
          timestamp |-> c.published]
    ELSE [ok |-> TRUE, lock |-> FALSE, facade |-> 1, timestamp |-> 0]

\* Engine::Engine: the fields a construction leaves, ok = FALSE when it throws.
Engine(c) ==
    IF c.use_shared_memory
    THEN IF ~TryConnect(c.published)
         THEN [ok |-> FALSE, lock |-> TRUE, facade |-> NullFacade, timestamp |-> 0]
         ELSE [ok |-> TRUE, lock |-> TRUE,
               facade |-> MaybeLoadNewRegion(0, c.published),
               timestamp |-> c.published]
    ELSE IF ~c.storage_valid
         THEN [ok |-> FALSE, lock |-> FALSE, facade |-> NullFacade, timestamp |-> 0]
         ELSE [ok |-> TRUE, lock |-> FALSE, facade |-> 1, timestamp |-> 0]

Init ==
    \E c \in Configs :
        LET e == Engine(c) IN
        /\ e.ok
        /\ engine = "ok"
        /\ config = {}
        /\ lock = e.lock
        /\ query_data_facade = e.facade
        /\ current_timestamp = e.timestamp
        /\ shared_timestamp = c.published
        /\ use_count = [g \in Gens |-> IF g = e.facade THEN 1 ELSE 0]
        /\ destroyed = {}
        /\ number_of_queries = 0
        /\ pending_update_mutex = {}
        /\ query_mutex = {}
        /\ facade_update_mutex = {}
        /\ aborted = FALSE
        /\ pc = [t \in Threads |-> "idle"]
        /\ new_facade = [t \in Threads |-> NullFacade]
        /\ handle = [t \in Threads |-> NullFacade]
        /\ holds = [t \in Threads |-> FALSE]
        /\ status = [t \in Threads |-> "none"]
        /\ reg = [t \in Threads |-> 0]
        /\ requests = 0
        /\ admitted = 0
        /\ released = 0
        /\ trace = [t \in Threads |-> <<>>]
        /\ pre = [t \in Threads |-> NullFacade]
        /\ obs = [t \in Threads |-> NullFacade]
        /\ upd = "idle"
        /\ result = [t \in Threads |-> "none"]

\* Before Engine::Engine has run: no engine, no facade, no gate.
InitCtor ==
    \E c \in Configs :
        /\ engine = "none"
        /\ config = {c}
        /\ lock = FALSE
        /\ query_data_facade = NullFacade
        /\ current_timestamp = 0
        /\ shared_timestamp = c.published
        /\ use_count = [g \in Gens |-> 0]
        /\ destroyed = {}
        /\ number_of_queries = 0
        /\ pending_update_mutex = {}
        /\ query_mutex = {}
        /\ facade_update_mutex = {}
        /\ aborted = FALSE
        /\ pc = [t \in Threads |-> "idle"]
        /\ new_facade = [t \in Threads |-> NullFacade]
        /\ handle = [t \in Threads |-> NullFacade]
        /\ holds = [t \in Threads |-> FALSE]
        /\ status = [t \in Threads |-> "none"]
        /\ reg = [t \in Threads |-> 0]
        /\ requests = 0
        /\ admitted = 0
        /\ released = 0
        /\ trace = [t \in Threads |-> <<>>]
        /\ pre = [t \in Threads |-> NullFacade]
        /\ obs = [t \in Threads |-> NullFacade]
        /\ upd = "idle"
        /\ result = [t \in Threads |-> "none"]

\* Engine::Engine runs with its config and with what is published by then:
\* it leaves an engine, or throws and leaves none.
Construct ==
    \E c \in config :
        LET e == Engine([c EXCEPT !.published = shared_timestamp]) IN
        /\ engine = "none"
        /\ config' = {}
        /\ IF e.ok
           THEN /\ engine' = "ok"
                /\ lock' = e.lock
                /\ query_data_facade' = e.facade
                /\ current_timestamp' = e.timestamp
                /\ use_count' = [g \in Gens |-> IF g = e.facade THEN 1 ELSE 0]
           ELSE /\ engine' = "failed"
                /\ UNCHANGED <<lock, query_data_facade, current_timestamp,
                               use_count>>
        /\ UNCHANGED <<result, upd, gate, facade_update_mutex, destroyed,
                       shared_timestamp, aborted, pc, locals, requests,
                       history, trace>>

\* ------------------------------------------------------------------ helpers
At(t, label) == engine = "ok" /\ ~aborted /\ pc[t] = label

Goto(t, label) == pc' = [pc EXCEPT ![t] = label]

Log(t, event) == trace' = [trace EXCEPT ![t] = Append(@, event)]

\* ----------------------------------------------------------- the loader
\* The loader process publishes the next generation.
Publish ==
    /\ ~aborted
    /\ shared_timestamp < MaxGen
    /\ shared_timestamp' = shared_timestamp + 1
    /\ UNCHANGED <<result, upd, built, gate, facade_update_mutex, facadeState,
                   aborted, pc,
                   locals, requests, history, trace>>


\* ------------------------------------------------------ reference counting
\* One more owner of generation g's facade.
AddRef(g) == [use_count EXCEPT ![g] = @ + 1]

\* One owner of generation g's facade goes away.
DropRef(g) == [use_count EXCEPT ![g] = @ - 1]

\* The facades destroyed once an owner of g goes away: g's, if it was the last.
AfterDrop(g) == IF use_count[g] = 1 THEN destroyed \cup {g} ELSE destroyed

\* ------------------------------------------------------------------ RunQuery
\* Faulty variant: the `if (!lock)` early return is missing.
GateConfigured_Always == TRUE

\* `if (!lock)`: whether the gate exists.
GateConfigured == lock

\* A request thread enters RunQuery and takes the branch of `if (!lock)`.
Execute(t) ==
    /\ At(t, "idle")
    /\ requests < MaxRequests
    /\ requests' = requests + 1
    /\ Goto(t, IF GateConfigured THEN "inc_pending" ELSE "sa_call")
    /\ UNCHANGED <<result, upd, built, gate, facade_update_mutex, facadeState,
                   shared_timestamp, aborted, locals, history, trace>>

\* Standalone: plugin.HandleRequest(facade, ...) receives the facade.
StandaloneCall(t) ==
    /\ At(t, "sa_call")
    /\ handle' = [handle EXCEPT ![t] = query_data_facade]
    /\ holds' = [holds EXCEPT ![t] = TRUE]
    /\ use_count' = AddRef(query_data_facade)
    /\ Log(t, "Call")
    /\ Goto(t, "sa_handler")
    /\ UNCHANGED <<result, upd, built, gate, facade_update_mutex,
                   query_data_facade,
                   current_timestamp, destroyed, shared_timestamp, aborted,
                   new_facade, status, reg, requests, history>>

\* Faulty variant: the dispatcher reports success whatever the handler said.
Returned_Ok(s) == "Ok"

\* `return status` (and `return plugin.HandleRequest(...)` without a gate):
\* what RunQuery hands to its caller.
Returned(s) == s

\* Standalone: the handler returns its Status, which RunQuery returns.
StandaloneReturn(t) ==
    /\ At(t, "sa_handler")
    /\ \E s \in Statuses :
           /\ status' = [status EXCEPT ![t] = s]
           /\ result' = [result EXCEPT ![t] = Returned(s)]
    /\ use_count' = DropRef(handle[t])
    /\ destroyed' = AfterDrop(handle[t])
    /\ holds' = [holds EXCEPT ![t] = FALSE]
    /\ Log(t, "Return")
    /\ Goto(t, "return")
    /\ UNCHANGED <<upd, built, gate, facade_update_mutex, query_data_facade,
                   current_timestamp, shared_timestamp, aborted, new_facade,
                   handle, reg, requests, history>>

\* Standalone: the handler throws and the exception leaves RunQuery.
StandaloneThrow(t) ==
    /\ At(t, "sa_handler")
    /\ status' = [status EXCEPT ![t] = "none"]
    /\ use_count' = DropRef(handle[t])
    /\ destroyed' = AfterDrop(handle[t])
    /\ holds' = [holds EXCEPT ![t] = FALSE]
    /\ Log(t, "Throw")
    /\ Goto(t, "return")
    /\ UNCHANGED <<result, upd, built, gate, facade_update_mutex,
                   query_data_facade,
                   current_timestamp, shared_timestamp, aborted, new_facade,
                   handle, reg, requests, history>>

\* -------------------------------------------------------- IncreaseQueryCount
\* Faulty variant: the counter is taken without waiting for a pending update.
PendingMutexFree_Ignored == TRUE

\* A scoped_lock on barrier.pending_update_mutex is granted when nobody
\* holds it.
PendingMutexFree == pending_update_mutex = {}

\* scoped_lock pending_lock(barrier.pending_update_mutex)
IncLockPending(t) ==
    /\ At(t, "inc_pending")
    /\ PendingMutexFree
    /\ pending_update_mutex' = {t}
    /\ Goto(t, "inc_query")
    /\ UNCHANGED <<result, upd, built, number_of_queries, query_mutex,
                   facade_update_mutex,
                   facadeState, shared_timestamp, aborted, locals, requests,
                   history, trace>>

\* Faulty variant: the counter is updated without waiting for query_mutex.
QueryMutexFree_Ignored == TRUE

\* A scoped_lock on barrier.query_mutex is granted when nobody holds it.
QueryMutexFree == query_mutex = {}

\* scoped_lock query_lock(barrier.query_mutex)
IncLockQuery(t) ==
    /\ At(t, "inc_query")
    /\ QueryMutexFree
    /\ query_mutex' = {t}
    /\ Goto(t, "inc_unlock")
    /\ UNCHANGED <<result, upd, built, number_of_queries, pending_update_mutex,
                   facade_update_mutex, facadeState, shared_timestamp, aborted,
                   locals, requests, history, trace>>

\* pending_lock.unlock()
IncUnlockPending(t) ==
    /\ At(t, "inc_unlock")
    /\ pending_update_mutex' = pending_update_mutex \ {t}
    /\ Goto(t, "inc_count")
    /\ UNCHANGED <<result, upd, built, number_of_queries, query_mutex,
                   facade_update_mutex,
                   facadeState, shared_timestamp, aborted, locals, requests,
                   history, trace>>

\* Faulty variant: the increment is lost.
Incremented_Lost(n) == n

\* The counter after ++(barrier.number_of_queries).
Incremented(n) == n + 1

\* ++(barrier.number_of_queries) reads the counter ...
IncLoad(t) ==
    /\ At(t, "inc_count")
    /\ reg' = [reg EXCEPT ![t] = number_of_queries]
    /\ Goto(t, "inc_store")
    /\ UNCHANGED <<result, upd, built, gate, facade_update_mutex, facadeState,
                   shared_timestamp, aborted, new_facade, handle, holds,
                   status, requests, history, trace>>

\* ... and writes it back; query_lock is released on return.
IncStore(t) ==
    /\ At(t, "inc_store")
    /\ number_of_queries' = Incremented(reg[t])
    /\ reg' = [reg EXCEPT ![t] = 0]
    /\ query_mutex' = query_mutex \ {t}
    /\ admitted' = admitted + 1
    /\ Log(t, "Admit")
    /\ Goto(t, "lock_facade")
    /\ UNCHANGED <<result, upd, built, pending_update_mutex,
                   facade_update_mutex, facadeState,
                   shared_timestamp, aborted, new_facade, handle, holds,
                   status, requests, released, pre, obs>>

\* ------------------------------------------------- RunQuery: the swap check
\* Faulty variant: the block is entered without waiting for the mutex.
FacadeMutexFree_Ignored == TRUE

\* std::lock_guard blocks until nobody holds facade_update_mutex.
FacadeMutexFree == facade_update_mutex = {}

\* Faulty variant: an unnamed lock_guard temporary, released at once.
Locked_Temporary(t) == {}

\* facade_update_mutex while update_lock, a named local, is alive.
Locked(t) == {t}

\* std::lock_guard<std::mutex> update_lock(lock->facade_update_mutex)
LockFacade(t) ==
    /\ At(t, "lock_facade")
    /\ FacadeMutexFree
    /\ facade_update_mutex' = Locked(t)
    /\ pre' = [pre EXCEPT ![t] = query_data_facade]
    /\ Log(t, "Lock")
    /\ Goto(t, "check")
    /\ UNCHANGED <<result, upd, built, gate, facadeState, shared_timestamp,
                   aborted, locals,
                   requests, admitted, released, obs>>

\* Faulty variant: the load is attempted whatever HasNewRegion says.
AfterCheck_Always == "load"

\* Faulty variant: the load is attempted exactly when nothing new is there.
AfterCheck_Inverted == IF HasNewRegion THEN "unlock" ELSE "load"

\* Where `if (watchdog.HasNewRegion())` continues.
AfterCheck == IF HasNewRegion THEN "load" ELSE "unlock"

\* if (watchdog.HasNewRegion())
CheckNewRegion(t) ==
    /\ At(t, "check")
    /\ Log(t, "Check")
    /\ Goto(t, AfterCheck)
    /\ UNCHANGED <<result, upd, built, gate, facade_update_mutex, facadeState,
                   shared_timestamp, aborted, locals, requests, history>>

\* auto new_facade = watchdog.MaybeLoadNewRegion()
LoadNewRegion(t) ==
    LET loaded == MaybeLoadNewRegion(current_timestamp, shared_timestamp) IN
    /\ At(t, "load")
    /\ new_facade' = [new_facade EXCEPT ![t] = loaded]
    /\ IF loaded = NullFacade
       THEN UNCHANGED <<current_timestamp, use_count>>
       ELSE /\ current_timestamp' = shared_timestamp
            /\ use_count' = AddRef(loaded)
    /\ Log(t, "Load")
    /\ Goto(t, "test")
    /\ UNCHANGED <<result, upd, built, gate, facade_update_mutex,
                   query_data_facade,
                   destroyed, shared_timestamp, aborted, handle, holds, status,
                   reg, requests, history>>

\* if (new_facade) { BOOST_ASSERT(facade.use_count() == 1); ... }: a failed
\* assertion ends the process in a build that keeps assertions and is
\* skipped in a build that compiles them out.
TestNewFacade(t) ==
    /\ At(t, "test")
    /\ IF new_facade[t] = NullFacade
       THEN Goto(t, "unlock") /\ UNCHANGED aborted
       ELSE IF use_count[query_data_facade] = 1
            THEN Goto(t, "assign") /\ UNCHANGED aborted
            ELSE \/ aborted' = TRUE /\ UNCHANGED pc
                 \/ Goto(t, "assign") /\ UNCHANGED aborted
    /\ UNCHANGED <<result, upd, built, gate, facade_update_mutex, facadeState,
                   shared_timestamp, locals, requests, history, trace>>

\* facade = std::move(new_facade): the assignment starts writing the field.
AssignBegin(t) ==
    /\ At(t, "assign")
    /\ Goto(t, "assigning")
    /\ UNCHANGED <<result, upd, built, gate, facade_update_mutex, facadeState,
                   shared_timestamp, aborted, locals, requests, history, trace>>

\* Faulty variant: the field is assigned from a handle that is already empty.
Assigned_Empty(t) == NullFacade

\* Faulty variant: the new facade is dropped and the field keeps the old one.
Assigned_Kept(t) == query_data_facade

\* The field after facade = std::move(new_facade).
Assigned(t) == new_facade[t]

\* facade = std::move(new_facade): the field holds the new facade and the
\* field's reference to the old one is gone ("the old facade will die here").
AssignEnd(t) ==
    /\ At(t, "assigning")
    /\ query_data_facade' = Assigned(t)
    /\ new_facade' = [new_facade EXCEPT ![t] = NullFacade]
    /\ use_count' = DropRef(query_data_facade)
    /\ destroyed' = AfterDrop(query_data_facade)
    /\ Log(t, "Swap")
    /\ Goto(t, "unlock")
    /\ UNCHANGED <<result, upd, built, gate, facade_update_mutex,
                   current_timestamp,
                   shared_timestamp, aborted, handle, holds, status, reg,
                   requests, history>>

\* Faulty variant: update_lock's scope extends over the handler call.
Unlocked_Late(t) == facade_update_mutex

\* The mutex after update_lock goes out of scope.
Unlocked(t) == facade_update_mutex \ {t}

\* End of the block: update_lock releases facade_update_mutex.
UnlockFacade(t) ==
    /\ At(t, "unlock")
    /\ facade_update_mutex' = Unlocked(t)
    /\ obs' = [obs EXCEPT ![t] = query_data_facade]
    /\ Log(t, "Unlock")
    /\ Goto(t, "call")
    /\ UNCHANGED <<result, upd, built, gate, facadeState, shared_timestamp,
                   aborted, locals,
                   requests, admitted, released, pre>>

\* ------------------------------------------------ RunQuery: the handler call
\* The values a read of the field `facade` can yield: the field's value, or,
\* while another thread is in the middle of assigning it, also the value
\* being assigned (an unsynchronised read of a field being written).
FieldValues ==
    {query_data_facade} \cup {new_facade[u] : u \in {v \in Threads : pc[v] = "assigning"}}

\* plugin.HandleRequest(facade, ...): the argument is read from the field.
CallHandler(t) ==
    /\ At(t, "call")
    /\ \E g \in FieldValues : handle' = [handle EXCEPT ![t] = g]
    /\ Log(t, "Call")
    /\ Goto(t, "copy")
    /\ UNCHANGED <<result, upd, built, gate, facade_update_mutex, facadeState,
                   shared_timestamp, aborted, new_facade, holds, status, reg,
                   requests, history>>

\* The argument takes its own reference; on a facade destroyed in the
\* meantime there is nothing left to take a reference to.
CopyFacade(t) ==
    /\ At(t, "copy")
    /\ IF handle[t] \in destroyed
       THEN /\ holds' = [holds EXCEPT ![t] = FALSE]
            /\ UNCHANGED use_count
       ELSE /\ holds' = [holds EXCEPT ![t] = TRUE]
            /\ use_count' = AddRef(handle[t])
    /\ Goto(t, "handler")
    /\ UNCHANGED <<result, upd, built, gate, facade_update_mutex,
                   query_data_facade,
                   current_timestamp, destroyed, shared_timestamp, aborted,
                   new_facade, handle, status, reg, requests, history, trace>>

\* The handler's argument goes out of scope.
ReleaseArgument(t) ==
    /\ holds' = [holds EXCEPT ![t] = FALSE]
    /\ IF holds[t]
       THEN /\ use_count' = DropRef(handle[t])
            /\ destroyed' = AfterDrop(handle[t])
       ELSE UNCHANGED <<use_count, destroyed>>

\* HandleRequest returns a Status.
HandlerReturn(t) ==
    /\ At(t, "handler")
    /\ \E s \in Statuses : status' = [status EXCEPT ![t] = s]
    /\ ReleaseArgument(t)
    /\ Log(t, "Return")
    /\ Goto(t, "dec_lock")
    /\ UNCHANGED <<result, upd, built, gate, facade_update_mutex,
                   query_data_facade,
                   current_timestamp, shared_timestamp, aborted, new_facade,
                   handle, reg, requests, history>>

\* HandleRequest throws: the exception leaves RunQuery past line 135.
HandlerThrow(t) ==
    /\ At(t, "handler")
    /\ status' = [status EXCEPT ![t] = "none"]
    /\ ReleaseArgument(t)
    /\ Log(t, "Throw")
    /\ Goto(t, "return")
    /\ UNCHANGED <<result, upd, built, gate, facade_update_mutex,
                   query_data_facade,
                   current_timestamp, shared_timestamp, aborted, new_facade,
                   handle, reg, requests, history>>

\* -------------------------------------------------------- DecreaseQueryCount
\* scoped_lock query_lock(barrier.query_mutex)
DecLockQuery(t) ==
    /\ At(t, "dec_lock")
    /\ QueryMutexFree
    /\ query_mutex' = {t}
    /\ Goto(t, "dec_count")
    /\ UNCHANGED <<result, upd, built, number_of_queries, pending_update_mutex,
                   facade_update_mutex, facadeState, shared_timestamp, aborted,
                   locals, requests, history, trace>>

\* The counter after --(barrier.number_of_queries).
Decremented(n) == n - 1

\* --(barrier.number_of_queries) reads the counter ...
DecLoad(t) ==
    /\ At(t, "dec_count")
    /\ reg' = [reg EXCEPT ![t] = number_of_queries]
    /\ Goto(t, "dec_store")
    /\ UNCHANGED <<result, upd, built, gate, facade_update_mutex, facadeState,
                   shared_timestamp, aborted, new_facade, handle, holds,
                   status, requests, history, trace>>

\* Faulty variant: the notify_all is missing.
NotifyNeeded_Never(n) == FALSE

\* if (0 == barrier.number_of_queries)
NotifyNeeded(n) == 0 = n

\* barrier.no_running_queries_condition.notify_all(): whoever waits on the
\* condition is woken.
Notified(n) == IF NotifyNeeded(n) /\ upd = "waiting" THEN "woken" ELSE upd

\* ... and writes it back; then the assertion and the notify_all.
DecStore(t) ==
    /\ At(t, "dec_store")
    /\ number_of_queries' = Decremented(reg[t])
    /\ reg' = [reg EXCEPT ![t] = 0]
    /\ released' = released + 1
    /\ upd' = Notified(Decremented(reg[t]))
    /\ Log(t, "Release")
    /\ Goto(t, "dec_unlock")
    /\ UNCHANGED <<result, built, pending_update_mutex, query_mutex,
                   facade_update_mutex,
                   facadeState, shared_timestamp, aborted, new_facade, handle,
                   holds, status, requests, admitted, pre, obs>>

\* query_lock is released at the end of DecreaseQueryCount.
DecUnlock(t) ==
    /\ At(t, "dec_unlock")
    /\ query_mutex' = query_mutex \ {t}
    /\ result' = [result EXCEPT ![t] = Returned(status[t])]
    /\ Goto(t, "return")
    /\ UNCHANGED <<upd, built, number_of_queries, pending_update_mutex,
                   facade_update_mutex, facadeState, shared_timestamp, aborted,
                   locals, requests, history, trace>>

\* RunQuery is left, by `return` or by the exception: its locals are gone.
Return(t) ==
    /\ At(t, "return")
    /\ handle' = [handle EXCEPT ![t] = NullFacade]
    /\ status' = [status EXCEPT ![t] = "none"]
    /\ trace' = [trace EXCEPT ![t] = <<>>]
    /\ pre' = [pre EXCEPT ![t] = NullFacade]
    /\ obs' = [obs EXCEPT ![t] = NullFacade]
    /\ result' = [result EXCEPT ![t] = "none"]
    /\ Goto(t, "idle")
    /\ UNCHANGED <<upd, built, gate, facade_update_mutex, facadeState,
                   shared_timestamp, aborted, new_facade, holds, reg,
                   requests, admitted, released>>

\* ------------------------------------------------------ the external updater
\* Another process on the same barrier: it announces an update by taking
\* pending_update_mutex, takes query_mutex, waits on
\* no_running_queries_condition until no query is running, and lets go.
Updater == NThreads + 1

UpdLockPending ==
    /\ ~aborted /\ lock
    /\ upd = "idle"
    /\ pending_update_mutex = {}
    /\ pending_update_mutex' = {Updater}
    /\ upd' = "pending"
    /\ UNCHANGED <<result, built, number_of_queries, query_mutex,
                   facade_update_mutex,
                   facadeState, shared_timestamp, aborted, pc, locals,
                   requests, history, trace>>

UpdLockQuery ==
    /\ ~aborted
    /\ upd = "pending"
    /\ query_mutex = {}
    /\ query_mutex' = {Updater}
    /\ upd' = "query"
    /\ UNCHANGED <<result, built, number_of_queries, pending_update_mutex,
                   facade_update_mutex, facadeState, shared_timestamp, aborted,
                   pc, locals, requests, history, trace>>

\* Queries are running: wait on the condition, which releases query_mutex.
UpdWait ==
    /\ ~aborted
    /\ upd = "query"
    /\ number_of_queries > 0
    /\ query_mutex' = query_mutex \ {Updater}
    /\ upd' = "waiting"
    /\ UNCHANGED <<result, built, number_of_queries, pending_update_mutex,
                   facade_update_mutex, facadeState, shared_timestamp, aborted,
                   pc, locals, requests, history, trace>>

\* Woken by notify_all: the wait returns once query_mutex is reacquired.
UpdReacquire ==
    /\ ~aborted
    /\ upd = "woken"
    /\ query_mutex = {}
    /\ query_mutex' = {Updater}
    /\ upd' = "query"
    /\ UNCHANGED <<result, built, number_of_queries, pending_update_mutex,
                   facade_update_mutex, facadeState, shared_timestamp, aborted,
                   pc, locals, requests, history, trace>>

\* No query is running: the updater is done and releases both mutexes.
UpdUnlock ==
    /\ ~aborted
    /\ upd = "query"
    /\ number_of_queries = 0
    /\ query_mutex' = query_mutex \ {Updater}
    /\ pending_update_mutex' = pending_update_mutex \ {Updater}
    /\ upd' = "idle"
    /\ UNCHANGED <<result, built, number_of_queries, facade_update_mutex,
                   facadeState,
                   shared_timestamp, aborted, pc, locals, requests, history,
                   trace>>

\* ------------------------------------------------------------ specification
Next ==
    \/ Publish
    \/ \E t \in Threads : Execute(t)
    \/ \E t \in Threads : StandaloneCall(t)
    \/ \E t \in Threads : StandaloneReturn(t)
    \/ \E t \in Threads : StandaloneThrow(t)
    \/ \E t \in Threads : IncLockPending(t)
    \/ \E t \in Threads : IncLockQuery(t)
    \/ \E t \in Threads : IncUnlockPending(t)
    \/ \E t \in Threads : IncLoad(t)
    \/ \E t \in Threads : IncStore(t)
    \/ \E t \in Threads : LockFacade(t)
    \/ \E t \in Threads : CheckNewRegion(t)
    \/ \E t \in Threads : LoadNewRegion(t)
    \/ \E t \in Threads : TestNewFacade(t)
    \/ \E t \in Threads : AssignBegin(t)
    \/ \E t \in Threads : AssignEnd(t)
    \/ \E t \in Threads : UnlockFacade(t)
    \/ \E t \in Threads : CallHandler(t)
    \/ \E t \in Threads : CopyFacade(t)
    \/ \E t \in Threads : HandlerReturn(t)
    \/ \E t \in Threads : HandlerThrow(t)
    \/ \E t \in Threads : DecLockQuery(t)
    \/ \E t \in Threads : DecLoad(t)
    \/ \E t \in Threads : DecStore(t)
    \/ \E t \in Threads : DecUnlock(t)
    \/ \E t \in Threads : Return(t)

Spec == Init /\ [][Next]_vars

\* The engine together with an external updater on the barrier.
NextGate ==
    \/ Next
    \/ UpdLockPending
    \/ UpdLockQuery
    \/ UpdWait
    \/ UpdReacquire
    \/ UpdUnlock

SpecGate == Init /\ [][NextGate]_vars

\* The engine from before its construction.
NextCtor ==
    \/ Construct
    \/ Next

SpecCtor == InitCtor /\ [][NextCtor]_vars

TypeOK ==
    /\ lock \in BOOLEAN
    /\ number_of_queries \in Int
    /\ engine = "ok" => query_data_facade \in Gens
    /\ use_count \in [Gens -> Nat]
    /\ destroyed \subseteq Gens
    /\ \A t \in Threads : handle[t] \in Gens \cup {NullFacade}
    /\ \A t \in Threads : result[t] \in Statuses \cup {"none"}
    /\ upd \in {"idle", "pending", "query", "waiting", "woken"}
    /\ engine \in {"none", "ok", "failed"}
    /\ config \subseteq Configs

\* ------------------------------------------------------------------- claims
Count(seq, event) == Cardinality({i \in DOMAIN seq : seq[i] = event})

IsPrefix(a, b) == Len(a) <= Len(b) /\ SubSeq(b, 1, Len(a)) = a

\* The positions between taking and releasing facade_update_mutex.
SwapBody == {"check", "load", "test", "assign", "assigning", "unlock"}

\* C1: for any interleaving of Admit and Release by the request threads the
\* query counter is never negative, and it is zero whenever every completed
\* Admit has been matched by a completed Release.
C1_CountNeverNegative ==
    /\ number_of_queries >= 0
    /\ admitted = released => number_of_queries = 0

C1_Witness ==
    /\ admitted >= 2
    /\ admitted = released
    /\ number_of_queries = 0
    /\ \A t \in Threads : pc[t] = "idle"

\* C2: no generation is destroyed underneath an in-flight reader: the
\* generation a handler call is running against has not been destroyed (the
\* request having taken its own reference to it in time).
C2_NoGenerationDestroyedUnderReader ==
    \A t \in Threads : pc[t] = "handler" => handle[t] \notin destroyed

\* C3: a request admitted after a completed swap runs its handler against a
\* generation at least as new as the one current when it took the lock, and
\* the handler of a request that passed the swap check runs against the
\* generation that request observed at its check, whatever swaps other
\* threads perform afterwards.
C3_HandlerUsesObservedGeneration ==
    /\ \A t \in Threads : pc[t] = "handler" => handle[t] >= pre[t]
    /\ \A t \in Threads : pc[t] = "handler" => handle[t] = obs[t]

\* C4: no request reads the current-facade field while another thread is in
\* the middle of assigning it.
C4_NoReadDuringWrite ==
    \A t \in Threads : \A u \in Threads :
        ~(pc[t] = "copy" /\ pc[u] = "assigning")

\* C5: with the gate configured, a request that leaves RunQuery, on whatever
\* path, has performed exactly one Release for its one Admit.
C5_ReleasePerAdmit ==
    \A t \in Threads :
        (lock /\ pc[t] = "return") =>
            /\ Count(trace[t], "Admit") = 1
            /\ Count(trace[t], "Release") = 1

\* C6: at most one thread is inside the section guarded by
\* facade_update_mutex (from the newer-generation check through the
\* assignment of the facade) at any time.
C6_OneThreadInSwapBody ==
    Cardinality({t \in Threads : pc[t] \in SwapBody}) <= 1

C6_Witness ==
    \E t \in Threads : \E u \in Threads :
        pc[t] = "assigning" /\ pc[u] = "lock_facade"

\* C7: no thread loads or assigns a new facade without holding
\* facade_update_mutex, and every step that changes the current facade is
\* taken by the thread holding facade_update_mutex.
C7_FacadeWrittenUnderLock ==
    /\ [](\A t \in Threads :
            pc[t] \in {"load", "test", "assign", "assigning"}
                => t \in facade_update_mutex)
    /\ [][query_data_facade' # query_data_facade
            => \E t \in facade_update_mutex :
                   pc[t] = "assigning" /\ pc'[t] = "unlock"]_vars

C7_Witness ==
    \E t \in facade_update_mutex :
        pc[t] = "unlock" /\ query_data_facade # pre[t]

\* The orders of gate events a shared-mode request can go through.
SharedTraces ==
    { <<"Admit", "Lock", "Check">> \o mid \o <<"Unlock", "Call">> \o tail :
        mid \in {<<>>, <<"Load">>, <<"Load", "Swap">>},
        tail \in {<<"Return", "Release">>, <<"Throw">>} }

\* C8: a shared-mode request performs Admit, lock, check (and maybe swap),
\* unlock, handler call, Release in this order: the handler never runs before
\* the request's Admit completed nor while the request holds the transition
\* lock, and Release never precedes the handler's return.
C8_ProtocolOrder ==
    \A t \in Threads :
        lock =>
            /\ \E full \in SharedTraces : IsPrefix(trace[t], full)
            /\ pc[t] \in {"copy", "handler"} =>
                   /\ t \notin facade_update_mutex
                   /\ t \notin query_mutex \cup pending_update_mutex
                   /\ Count(trace[t], "Admit") = 1
                   /\ Count(trace[t], "Unlock") = 1
            /\ pc[t] \in {"dec_lock", "dec_count", "dec_store", "dec_unlock"} =>
                   /\ ~holds[t]
                   /\ Count(trace[t], "Return") = 1

C8_Witness ==
    \E t \in Threads :
        /\ lock
        /\ pc[t] = "return"
        /\ trace[t] = <<"Admit", "Lock", "Check", "Load", "Swap", "Unlock",
                        "Call", "Return", "Release">>

\* C9: a swap check that finds no newer generation does nothing: the check
\* itself changes neither the current facade, the watchdog nor the query
\* counter and goes straight to the unlock, and when the lock is released
\* the current facade is still the one found when the lock was taken.
C9_CheckWithoutNewRegionIsNoOp ==
    /\ [](\A t \in Threads :
            (pc[t] = "unlock" /\ Count(trace[t], "Load") = 0)
                => query_data_facade = pre[t])
    /\ [][\A t \in Threads :
            (pc[t] = "check" /\ ~HasNewRegion /\ pc'[t] # "check")
                => /\ pc'[t] = "unlock"
                   /\ query_data_facade' = query_data_facade
                   /\ current_timestamp' = current_timestamp
                   /\ use_count' = use_count
                   /\ number_of_queries' = number_of_queries]_vars

C9_Witness ==
    \E t \in Threads :
        /\ pc[t] = "unlock"
        /\ Count(trace[t], "Load") = 0
        /\ released >= 1
        /\ query_data_facade = pre[t]

\* C10: without a gate (standalone) no request touches the query counter,
\* the mutexes or the watchdog, and the current facade stays the one created
\* at construction.
C10_StandaloneLeavesGateAlone ==
    ~lock =>
        /\ number_of_queries = 0
        /\ admitted = 0 /\ released = 0
        /\ pending_update_mutex = {} /\ query_mutex = {}
        /\ facade_update_mutex = {}
        /\ current_timestamp = 0
        /\ query_data_facade = 1 /\ destroyed = {}
        /\ \A t \in Threads :
            /\ pc[t] \in {"idle", "sa_call", "sa_handler", "return"}
            /\ \A i \in DOMAIN trace[t] : trace[t][i] \in {"Call", "Return", "Throw"}
            /\ pc[t] = "sa_handler" => handle[t] = 1

C10_Witness ==
    /\ ~lock
    /\ requests >= 2
    /\ \E t \in Threads : pc[t] = "return" /\ status[t] = "Error"

\* C11: a request whose own swap check installed a new facade calls its
\* handler with a facade that is not the outgoing one: the one it installed,
\* or a newer one installed since.
C11_SwapperRunsOnNewGeneration ==
    \A t \in Threads :
        (pc[t] \in {"copy", "handler"} /\ Count(trace[t], "Swap") = 1) =>
            /\ handle[t] # pre[t]
            /\ handle[t] >= obs[t]
            /\ obs[t] > pre[t]

C11_Witness ==
    \E t \in Threads :
        /\ pc[t] = "handler"
        /\ Count(trace[t], "Swap") = 1
        /\ handle[t] = obs[t]
        /\ handle[t] # pre[t]
\* C12: a waiter on no_running_queries_condition never sleeps while the count
\* is zero. Every release that brings the count to zero wakes the waiter, and
\* does so while it holds query_mutex; a release that leaves the count above
\* zero wakes nobody; nothing else wakes the waiter.
C12_Releasing(t) == pc[t] = "dec_store" /\ pc'[t] = "dec_unlock"

C12_WaiterNeverMissesZero ==
    /\ [](upd = "waiting" => number_of_queries > 0)
    /\ [][/\ \A t \in Threads :
               C12_Releasing(t) =>
                   /\ t \in query_mutex /\ t \in query_mutex'
                   /\ (number_of_queries' = 0 /\ upd = "waiting") =>
                          upd' = "woken"
                   /\ number_of_queries' > 0 => upd' = upd
          /\ (upd = "waiting" /\ upd' = "woken") =>
                 \E t \in Threads :
                     C12_Releasing(t) /\ number_of_queries' = 0]_vars

C12_Witness ==
    /\ upd = "woken"
    /\ number_of_queries = 0
    /\ \E t \in Threads : pc[t] = "dec_unlock" /\ t \in query_mutex

\* C13: MaybeLoadNewRegion is called only by the holder of
\* facade_update_mutex, directly after HasNewRegion returned true in that
\* same hold; a request whose check returned false goes on to unlock without
\* loading.
C13_LoadFollowsCheck(t) ==
    \A i \in 1..Len(trace[t]) :
        trace[t][i] = "Load" =>
            /\ i > 2
            /\ trace[t][i - 1] = "Check"
            /\ trace[t][i - 2] = "Lock"

C13_CheapCheckFirst ==
    /\ [](\A t \in Threads :
              /\ C13_LoadFollowsCheck(t)
              /\ pc[t] = "load" =>
                     /\ t \in facade_update_mutex
                     /\ HasNewRegion
                     /\ trace[t][Len(trace[t])] = "Check")
    /\ [][\A t \in Threads :
              /\ Count(trace'[t], "Load") > Count(trace[t], "Load") =>
                     pc[t] = "load" /\ HasNewRegion
              /\ (pc[t] = "check" /\ pc'[t] # "check") =>
                     pc'[t] = (IF HasNewRegion THEN "load" ELSE "unlock")]_vars

C13_Witness ==
    \E t \in Threads :
        /\ pc[t] = "test"
        /\ new_facade[t] # NullFacade
        /\ Count(trace[t], "Load") = 1
        /\ t \in facade_update_mutex

\* C14: what RunQuery returns is the Status its handler returned, with or
\* without a gate and whatever Admit, check, swap and Release did around the
\* call; nothing is returned before the handler has returned.
C14_StatusReturnedUnchanged ==
    \A t \in Threads :
        /\ result[t] # "none" =>
               /\ pc[t] = "return"
               /\ Count(trace[t], "Return") = 1
               /\ result[t] = status[t]
        /\ (pc[t] = "return" /\ Count(trace[t], "Return") = 1) =>
               /\ status[t] \in Statuses
               /\ result[t] = status[t]

C14_Witness ==
    \E t \in Threads :
        /\ lock
        /\ pc[t] = "return"
        /\ Count(trace[t], "Swap") = 1
        /\ Count(trace[t], "Release") = 1
        /\ status[t] = "Error"
        /\ result[t] = "Error"

\* C15: construction fails exactly when shared memory is selected and no
\* generation is published, or when it is not and the storage config is
\* invalid; without an engine no query is admitted; a construction that
\* succeeds leaves a facade, and a gate exactly when shared memory is selected.
C15_StartupFailure(c) ==
    \/ c.use_shared_memory /\ shared_timestamp = 0
    \/ ~c.use_shared_memory /\ ~c.storage_valid

C15_ConstructionFailsExactlyOnStartupFailure ==
    /\ [](engine # "ok" =>
              /\ requests = 0 /\ admitted = 0 /\ number_of_queries = 0
              /\ \A t \in Threads : pc[t] = "idle")
    /\ [][(engine = "none" /\ engine' # "none") =>
              \A c \in config :
                  /\ engine' = "failed" <=> C15_StartupFailure(c)
                  /\ engine' = "ok" =>
                         /\ query_data_facade' # NullFacade
                         /\ use_count'[query_data_facade'] = 1
                         /\ lock' <=> c.use_shared_memory]_vars

C15_Witness ==
    /\ engine = "failed"
    /\ config = {}
    /\ shared_timestamp = 0

\* C16: whenever a request is about to exchange the current facade for a
\* newly loaded one, the outgoing facade has exactly one owner, the field
\* itself: BOOST_ASSERT(facade.use_count() == 1) never fails.
C16_OutgoingFacadeUnreferenced ==
    \A t \in Threads :
        (pc[t] \in {"test", "assign"} /\ new_facade[t] # NullFacade) =>
            use_count[query_data_facade] = 1

\* C17: the query counter equals the number of requests that have completed
\* IncreaseQueryCount and not completed DecreaseQueryCount, a request whose
\* handler threw included; it is at least the number of requests between the
\* two, so at least 1 during every check, swap and handler call, for as long
\* as the handler runs.
C17_Admitted ==
    {t \in Threads :
        pc[t] \in SwapBody \cup
            {"lock_facade", "call", "copy", "handler", "dec_lock",
             "dec_count", "dec_store"}}

C17_CountIsAdmittedNotReleased ==
    /\ number_of_queries = admitted - released
    /\ number_of_queries >= Cardinality(C17_Admitted)
    /\ \A t \in Threads :
           pc[t] \in SwapBody \cup {"call", "copy", "handler"} =>
               number_of_queries >= 1

C17_Witness ==
    \E t, u \in Threads :
        /\ pc[t] = "handler"
        /\ pc[u] = "idle"
        /\ number_of_queries = 2
        /\ admitted - released = 2

\* C18 as stated: while the external updater holds pending_update_mutex no
\* IncreaseQueryCount completes and the query counter does not increase.
C18_UpdatePending == Updater \in pending_update_mutex

C18_NoAdmitCompletesWhilePending ==
    [][(C18_UpdatePending /\ C18_UpdatePending') =>
           /\ admitted' = admitted
           /\ number_of_queries' <= number_of_queries]_vars

\* C18 amended: while the external updater holds pending_update_mutex no
\* request gets past the pending lock of IncreaseQueryCount, and at most one
\* request, which released the pending lock before the updater took it and
\* still holds query_mutex, is left to finish its increment; once the updater
\* has held query_mutex as well the counter only decreases; taking
\* query_mutex in DecreaseQueryCount never waits for the pending lock.
C18_PastPendingLock ==
    {t \in Threads : pc[t] \in {"inc_query", "inc_unlock", "inc_count", "inc_store"}}

C18_PendingBlocksNewAdmits ==
    /\ [](C18_UpdatePending =>
              /\ \A t \in C18_PastPendingLock :
                     pc[t] \in {"inc_count", "inc_store"} /\ t \in query_mutex
              /\ Cardinality(C18_PastPendingLock) <= 1
              /\ upd # "pending" => C18_PastPendingLock = {})
    /\ [](\A t \in Threads :
              (engine = "ok" /\ ~aborted /\ pc[t] = "dec_lock" /\ query_mutex = {})
                  => ENABLED DecLockQuery(t))
    /\ [][/\ (C18_UpdatePending /\ C18_UpdatePending') =>
                 \A t \in Threads :
                     pc[t] = "inc_pending" => pc'[t] = "inc_pending"
          /\ (upd \in {"query", "waiting", "woken"} /\ upd' # "idle") =>
                 /\ admitted' = admitted
                 /\ number_of_queries' <= number_of_queries]_vars

C18_Witness ==
    /\ upd = "waiting"
    /\ C18_UpdatePending
    /\ \E t, u \in Threads : pc[t] = "inc_pending" /\ pc[u] = "dec_store"

\* C19: the gate never gets stuck: in every reachable state in which a
\* request is inside RunQuery some step is possible, so that a fair schedule
\* takes every request to its DecreaseQueryCount and its return.
C19_InFlight == {t \in Threads : pc[t] # "idle"}

C19_RequestsCanProceed == C19_InFlight # {} => ENABLED Next

\* C20: once constructed, the engine's facade is never empty and every
\* handler call gets a non-empty facade; the facade changes only in the
\* assignment by the holder of facade_update_mutex, to the non-empty facade
\* that holder's MaybeLoadNewRegion returned, so a request whose load returned
\* none leaves it as it was.
C20_FacadeNeverEmpty ==
    /\ [](engine = "ok" =>
              /\ query_data_facade # NullFacade
              /\ \A t \in Threads :
                     pc[t] \in {"handler", "sa_handler"} =>
                         handle[t] # NullFacade)
    /\ [][(engine = "ok" /\ query_data_facade' # query_data_facade) =>
              \E t \in Threads :
                  /\ pc[t] = "assigning"
                  /\ t \in facade_update_mutex
                  /\ new_facade[t] # NullFacade
                  /\ query_data_facade' = new_facade[t]]_vars

C20_Witness ==
    \E t \in Threads :
        /\ engine = "ok"
        /\ requests = MaxRequests
        /\ pc[t] = "handler"
        /\ query_data_facade = MaxGen
        /\ handle[t] = query_data_facade

=============================================================================
